---- MODULE Spec2Model ----
(***************************************************************************)
(* Model of the ItemSense queue connector, lib/itemsense-queue-connector.js *)
(* (the current variant, lines 1-645) and lib/itemsense-requests.js.        *)
(*                                                                         *)
(* One ItemSenseConnector instance.  Its three supervisors (item,           *)
(* threshold, health) are the three copies of _connectXQueue /              *)
(* _retryConnectXQueue.  Every await of the source is a suspension point:   *)
(* the code up to the next await is one atomic action.  The broker (amqplib)*)
(* and the ItemSense HTTP API are the environment: the outcome of every     *)
(* awaited call, and every connection event, is a nondeterministic choice.  *)
(***************************************************************************)
EXTENDS Naturals, Integers, Sequences, FiniteSets, TLC

(***************************** bounds **************************************)
\* start() / shutdown() calls made by the application, failures and connection
\* events injected by the environment, and retries begun by a timer, together
MaxEvents == 3

\* frames delivered to one consumer
MaxFrames == 2

\* calls of the liveness check
MaxProbes == 2

(***************************** constants ***********************************)
Roles      == {"item", "threshold", "health"}
NamedRoles == {"item", "threshold"}     \* roles whose options.<role>QueueName is read
NoName     == 0                         \* the empty string ''
CfgName    == 1                         \* a queue name supplied by the application
NoChan     == <<0, 0>>                  \* a null channel field

MIN_CONN_HEARTBEAT     == 1             \* seconds
MIN_CONN_RETRY         == 1000          \* milliseconds
DEFAULT_CONN_RETRY     == 30000
DEFAULT_CONN_HEARTBEAT == 30000

DEFAULT_HOSTNAME       == "127.0.0.1"
DEFAULT_PORT           == 80
DEFAULT_IGNORE_ABSENT  == FALSE
DEFAULT_MAX_OBSERVATION_TIME_DELTA == 0

\* createOptions(): the options it defines (those the connector reads)
OptionKeys == {"hostname", "port", "connectionRetryInterval",
               "connectionHeartbeatInterval", "itemQueueName", "ignoreAbsent",
               "maxObservationTimeDelta"}

\* the object `defaults` of createOptions() before the loop
Defaults == [hostname                    |-> DEFAULT_HOSTNAME,
             port                        |-> DEFAULT_PORT,
             connectionRetryInterval     |-> DEFAULT_CONN_RETRY,
             connectionHeartbeatInterval |-> DEFAULT_CONN_HEARTBEAT,
             itemQueueName               |-> "",
             ignoreAbsent                |-> DEFAULT_IGNORE_ABSENT,
             maxObservationTimeDelta     |-> DEFAULT_MAX_OBSERVATION_TIME_DELTA]

\* the value of each option's type that `if (options[opt])` takes as false
Falsy == [hostname                    |-> "",
          port                        |-> 0,
          connectionRetryInterval     |-> 0,
          connectionHeartbeatInterval |-> 0,
          itemQueueName               |-> "",
          ignoreAbsent                |-> FALSE,
          maxObservationTimeDelta     |-> 0]

\* the objects an application may pass to createOptions(): `has` are the
\* properties the object defines, `val` their values
Overrides ==
    [has : SUBSET OptionKeys,
     val : [hostname                    : {"", "10.0.0.5"},
            port                        : {0, 8080},
            connectionRetryInterval     : {0, 5000},
            connectionHeartbeatInterval : {0, 10000},
            itemQueueName               : {"", "items"},
            ignoreAbsent                : BOOLEAN,
            maxObservationTimeDelta     : {0, 5}]]

\* createOptions(options): each default is replaced by the passed value when
\* that value is truthy
createOptions(options) ==
    [k \in OptionKeys |->
        IF k \in options.has /\ options.val[k] # Falsy[k]
        THEN options.val[k] ELSE Defaults[k]]

\* createOptions() has not been called; `options = {}` is the parameter's default
NoCall == [given |-> [has |-> {}, val |-> Falsy], out |-> <<>>]

\* the module used in-process by an application that listens for 'error'
Listening == [isChildProcess |-> FALSE, onError |-> TRUE]

\* in-process or forked as a child process; with or without an 'error' listener
Hosts == [isChildProcess : BOOLEAN, onError : BOOLEAN]

\* createOptions(): the timing options when the application supplies none
DefaultTiming == [connectionRetryInterval     |-> DEFAULT_CONN_RETRY,
                  connectionHeartbeatInterval |-> DEFAULT_CONN_HEARTBEAT]

\* the timing options an application may pass to start(), in milliseconds
Intervals == {0, 1, 999, 1000, 1001, 1999, 2000, 30000}
Timings   == {[connectionRetryInterval |-> v, connectionHeartbeatInterval |-> v] :
                 v \in Intervals}

\* the configurations start() is called with: createOptions() defines every
\* option, so the queue names are '' or a name the application supplies
Configs    == {[r \in Roles |-> n] : n \in {NoName, CfgName}}

\* the ItemSense server answers the requests of the roles in `active`; the
\* liveness request of the other roles stays pending during the run
\* DEFAULT_IGNORE_ABSENT, DEFAULT_MAX_OBSERVATION_TIME_DELTA
DefaultFilter == [ignoreAbsent |-> FALSE, maxObservationTimeDelta |-> 0]

\* the filter options an application may pass
Filters == [ignoreAbsent : BOOLEAN, maxObservationTimeDelta : {-1, 0, 5}]

\* the frames a broker may deliver: a payload that is not JSON, the JSON text
\* null, and JSON objects with a toZone and an observationTime, which is a
\* date (given by its age in ms when the frame arrives) or some other text
Frames ==
    {[kind |-> "garbage"], [kind |-> "null"]}
    \cup [kind : {"object"}, toZone : {"ABSENT", "ZONE_A"}, obs : {"date"}, age : {4, 5, 6}]
    \cup [kind : {"object"}, toZone : {"ABSENT", "ZONE_A"}, obs : {"text"}, age : {0}]

\* the callback's record before any frame was delivered
NoFrames(o) == [o |-> o, own |-> TRUE, got |-> <<>>, acks |-> 0, stray |-> 0,
                sink |-> <<>>, threw |-> 0]

ActiveSets == {{r} : r \in Roles}

\* the six try-blocks of shutdown(), in source order
ShutdownSteps == <<
    [r |-> "item",      what |-> "channel"],
    [r |-> "item",      what |-> "connection"],
    [r |-> "threshold", what |-> "channel"],
    [r |-> "threshold", what |-> "connection"],
    [r |-> "health",    what |-> "channel"],
    [r |-> "health",    what |-> "connection"] >>

VARIABLES
    started,    \* this._started
    opt,        \* this.options.itemQueueName / thresholdQueueName / healthQueueName
    optT,       \* this.options.connectionRetryInterval / connectionHeartbeatInterval
    delay,      \* per role, the delay given to setTimeout for the timer of the handle
    timing,     \* the timing options the application passes to start() in this run
    errors,     \* the number of 'error' events handed to the sink so far
    host,       \* how the module is used: isChildProcess, and whether the
                \* application has registered a listener for 'error'
    made,       \* the call of createOptions: the options object passed and,
                \* once it returned, the object returned
    probes,     \* the calls of isServerAvailable made so far: what the server did
                \* and how the returned promise came out
    msg,        \* the consume callback of role active: the filter options in
                \* force, whether the role's channel field still refers to the
                \* consumer's channel (a later attempt may have replaced it), the
                \* frames delivered, and what the callback did with them
    conn,       \* this._<role>QueueConnection: 0 (null) or the id of a connection
    chan,       \* this._<role>QueueChannel: NoChan or <<attempt, k>>
    handle,     \* this._retryConnect<Role>QueueHandle refers to a pending timer
    timers,     \* number of pending retry timers of the role
    att,        \* per role, the connect attempts begun so far (calls of _connectXQueue)
    co,         \* per role, the broker connection opened by attempt a
    ch,         \* per role, the (up to two) channels opened by attempt a
    emitted,    \* the events handed to _emitEventMessage by the last step
    loss,       \* a connection loss was reported to the role's handlers and no
                \* connect attempt of the role has begun since
    last,       \* the last step taken and the value of _started before it; cons:
                \* the step is a connection loss of a consuming role, or the
                \* retry coming due right after such a loss
    spent,      \* API calls, injected failures and retries begun so far
    budget,     \* the number of them the run may take
    epoch,      \* per role, the number of attempts begun before the last start()
                \* that took effect
    active      \* the roles whose awaited calls the environment settles in this run

vars == <<started, opt, conn, chan, handle, timers, att, co, ch, emitted, loss, last,
          spent, budget, epoch, active, optT, delay, timing, errors, msg, probes, made, host>>

\* the program state as one record, so that handlers compose as functions
Cur == [started |-> started, opt |-> opt, conn |-> conn, chan |-> chan,
        handle |-> handle, timers |-> timers, att |-> att, co |-> co,
        ch |-> ch, emitted |-> <<>>, loss |-> loss, optT |-> optT, delay |-> delay,
        host |-> host, threw |-> FALSE]

DoneAttempt == [pc |-> "done", qn |-> NoName, tc |-> 0, tch |-> NoChan, tn |-> NoName]
ClosedConn  == [st |-> "closed", ls |-> 0, k |-> 0, hb |-> 0]
ClosedChan  == [st |-> "closed", ls |-> 0, cons |-> -1, on |-> 0, k |-> 0]

Set(s) == /\ started' = s.started
          /\ opt'     = s.opt
          /\ conn'    = s.conn
          /\ chan'    = s.chan
          /\ handle'  = s.handle
          /\ timers'  = s.timers
          /\ att'     = [r \in Roles |-> [a \in DOMAIN s.att[r] |->
                            IF s.att[r][a].pc = "done" THEN DoneAttempt ELSE s.att[r][a]]]
          /\ co'      = [r \in Roles |-> [c \in DOMAIN s.co[r] |->
                            IF s.co[r][c].st = "closed" THEN ClosedConn ELSE s.co[r][c]]]
          /\ ch'      = [r \in Roles |-> [a \in DOMAIN s.ch[r] |-> [k \in {1, 2} |->
                            IF s.ch[r][a][k].st = "closed" THEN ClosedChan ELSE s.ch[r][a][k]]]]
          /\ emitted' = s.emitted
          /\ loss'    = s.loss
          /\ optT'    = s.optT
          /\ delay'   = s.delay
          /\ errors'  = errors + Cardinality({i \in DOMAIN s.emitted : s.emitted[i][1] = "error"})

NewConn == [st |-> "none", ls |-> 0, k |-> 0, hb |-> 0]
NewChan == [st |-> "none", ls |-> 0, cons |-> -1, on |-> 0, k |-> 0]
NewAttempt(name) == [pc |-> "liveness", qn |-> name, tc |-> 0, tch |-> NoChan, tn |-> NoName]

(***************************** event sink **********************************)
\* an event is <<name, payload tag, queue name or shutdown step>>
\* process.send(...) when run as a child process, else this.emit(event, message):
\* an EventEmitter with no listener for 'error' throws the error it is given
_emitEventMessage(s, ev, tag, n) ==
    IF ~s.host.isChildProcess /\ ev = "error" /\ ~s.host.onError
    THEN [s EXCEPT !.threw = TRUE]
    ELSE [s EXCEPT !.emitted = Append(@, <<ev, tag, n>>)]

ConnectedEvent_Generic(r) == "queueConnected"

ConnectedEvent(r) ==
    CASE r = "item"      -> "itemQueueConnected"
      [] r = "threshold" -> "thresholdQueueConnected"
      [] r = "health"    -> "healthQueueConnected"

(***************************** timers **************************************)
clearTimeout_EveryRole(s, r) ==
    [s EXCEPT !.timers = [q \in Roles |-> IF s.handle[q] THEN @[q] - 1 ELSE @[q]],
              !.handle = [q \in Roles |-> FALSE]]

clearTimeout(s, r) ==
    [s EXCEPT !.timers[r] = IF s.handle[r] THEN @ - 1 ELSE @,
              !.handle[r] = FALSE]

setTimeout(s, r, ms) ==
    [s EXCEPT !.timers[r] = @ + 1, !.handle[r] = TRUE, !.delay[r] = ms]

\* Math.max(a, b)
Max(a, b) == IF a > b THEN a ELSE b

retryInterval(s) == Max(MIN_CONN_RETRY, s.optT.connectionRetryInterval)

_retryConnectQueue_NoClear(s, r) == setTimeout(s, r, retryInterval(s))

_retryConnectQueue_RawInterval(s, r) ==
    setTimeout(clearTimeout(s, r), r, s.optT.connectionRetryInterval)

_retryConnectQueue(s, r) == setTimeout(clearTimeout(s, r), r, retryInterval(s))

(***************************** resources ***********************************)
\* EventEmitter.removeAllListeners() on the object a field refers to
connRemoveAllListeners(s, r) ==
    IF s.conn[r] = 0 THEN s ELSE [s EXCEPT !.co[r][s.conn[r]].ls = 0]

chanRemoveAllListeners(s, r) ==
    IF s.chan[r] = NoChan THEN s
    ELSE [s EXCEPT !.ch[r][s.chan[r][1]][s.chan[r][2]].ls = 0]

\* a connection that is gone takes its channels and their consumers with it
ChannelsGone(s, r, c) ==
    [s EXCEPT !.ch[r] = [a \in DOMAIN @ |-> [k \in {1, 2} |->
        IF @[a][k].on = c /\ @[a][k].st # "none"
        THEN [@[a][k] EXCEPT !.st = "closed", !.cons = -1]
        ELSE @[a][k]]]]

ConnGone(s, r, c) == ChannelsGone([s EXCEPT !.co[r][c].st = "closed"], r, c)

(***************************** connect attempts ****************************)
_connectQueue_NoGuard(s, r) ==
    [s EXCEPT !.loss[r] = FALSE,
              !.att[r] = Append(@, NewAttempt(IF r \in NamedRoles THEN s.opt[r] ELSE NoName)),
              !.co[r]  = Append(@, NewConn),
              !.ch[r]  = Append(@, <<NewChan, NewChan>>)]

\* _connectXQueue up to its first await (requests.isServerAvailable)
_connectQueue(s, r) ==
    IF ~s.started THEN s
    ELSE [s EXCEPT !.loss[r] = FALSE,
                   !.att[r] = Append(@, NewAttempt(IF r \in NamedRoles THEN s.opt[r] ELSE NoName)),
                   !.co[r]  = Append(@, NewConn),
                   !.ch[r]  = Append(@, <<NewChan, NewChan>>)]

_connectItemQueue(s)      == _connectQueue(s, "item")
_connectThresholdQueue(s) == _connectQueue(s, "threshold")
_connectHealthQueue(s)    == _connectQueue(s, "health")

FailAttempt_Silent(s, r, a, why) ==
    _retryConnectQueue([s EXCEPT !.att[r][a].pc = "done"], r)

\* catch (err) { this._emitEventMessage('error', err); return this._retryConnectXQueue(); }
\* an exception thrown by the first statement leaves the async function
FailAttempt(s, r, a, why) ==
    LET s1 == _emitEventMessage([s EXCEPT !.att[r][a].pc = "done"], "error", why, 0)
    IN IF s1.threw THEN s1 ELSE _retryConnectQueue(s1, r)

(***************************** start ***************************************)
start_NoGuard(s, cfg, t) ==
    LET s1 == [s EXCEPT !.started = TRUE,
                        !.opt = [r \in Roles |-> cfg[r]],
                        !.optT = t]
        s2 == clearTimeout(clearTimeout(clearTimeout(s1, "item"), "threshold"), "health")
    IN _connectHealthQueue(_connectThresholdQueue(_connectItemQueue(s2)))

start(s, cfg, t) ==
    IF s.started THEN s
    ELSE LET s1 == [s EXCEPT !.started = TRUE,
                             !.opt = [r \in Roles |-> cfg[r]],
                             !.optT = t]
             s2 == clearTimeout(clearTimeout(clearTimeout(s1, "item"), "threshold"), "health")
         IN _connectHealthQueue(_connectThresholdQueue(_connectItemQueue(s2)))

(***************************** shutdown ************************************)
\* the try-blocks i..6 of shutdown(), run until the next await that suspends
RECURSIVE shutdownFrom(_, _)
shutdownFrom(s, i) ==
    IF i > Len(ShutdownSteps) THEN s
    ELSE
      LET r  == ShutdownSteps[i].r
          s1 == _emitEventMessage(s, "info", "closing", i)
      IN IF ShutdownSteps[i].what = "channel"
         THEN IF s1.chan[r] = NoChan
              THEN shutdownFrom(s1, i + 1)              \* TypeError on null, swallowed
              ELSE LET a  == s1.chan[r][1]
                       k  == s1.chan[r][2]
                       s2 == chanRemoveAllListeners(s1, r)
                   IN IF s2.ch[r][a][k].st = "open"
                      THEN [s2 EXCEPT !.ch[r][a][k].st = "closing",
                                      !.ch[r][a][k].cons = -1, \* a closing channel drops deliveries
                                      !.ch[r][a][k].k = i]     \* await close()
                      ELSE shutdownFrom(s2, i + 1)      \* close() rejects, swallowed
         ELSE IF s1.conn[r] = 0
              THEN shutdownFrom(s1, i + 1)
              ELSE LET c  == s1.conn[r]
                       s2 == connRemoveAllListeners(s1, r)
                   IN IF s2.co[r][c].st = "open"
                      THEN [s2 EXCEPT !.co[r][c].st = "closing",
                                      !.co[r][c].k = i]
                      ELSE shutdownFrom(s2, i + 1)

shutdown(s) ==
    shutdownFrom([s EXCEPT !.started = FALSE,
                           !.opt["item"] = NoName,
                           !.opt["threshold"] = NoName], 1)

(***************************** connection handlers *************************)
\* this._xQueueConnection.on('error', ...)
onConnectionError(s, r) ==
    _retryConnectQueue(_emitEventMessage([s EXCEPT !.loss[r] = TRUE], "error", "interrupted", 0), r)

\* this._xQueueConnection.on('close', err => ...); the health copy has no name to clear
onConnectionClose(s, r, err) ==
    IF err
    THEN LET s0 == [s EXCEPT !.loss[r] = TRUE]
             s1 == IF r \in NamedRoles THEN [s0 EXCEPT !.opt[r] = NoName] ELSE s0
         IN _retryConnectQueue(_emitEventMessage(s1, "amqpConnectionClosed", "error", 0), r)
    ELSE _emitEventMessage(s, "amqpConnectionClosed", "clean", 0)

\* this._xQueueChannel.on('error', err => this._emitEventMessage('error', err))
onChannelError(s, r) == _emitEventMessage(s, "error", "channel", 0)

\* an event delivered to each of the n listeners registered for it
RECURSIVE EmitError(_, _, _)
EmitError(s, r, n) == IF n = 0 THEN s ELSE EmitError(onConnectionError(s, r), r, n - 1)

RECURSIVE EmitClose(_, _, _, _)
EmitClose(s, r, err, n) ==
    IF n = 0 THEN s ELSE EmitClose(onConnectionClose(s, r, err), r, err, n - 1)

RECURSIVE EmitChannelError(_, _, _)
EmitChannelError(s, r, n) ==
    IF n = 0 THEN s ELSE EmitChannelError(onChannelError(s, r), r, n - 1)

(***************************** the rest of _connectXQueue ******************)
\* lines 302-323: register the connection handlers on the connection field and
\* call consume() on the channel field; the name is read from the options
\* (item, threshold) or from the local variable (health)
Subscribe(s, r, a) ==
    LET c  == s.conn[r]
        s1 == [s EXCEPT !.co[r][c].ls = @ + 1]
        nm == IF r \in NamedRoles THEN s1.opt[r] ELSE s1.att[r][a].qn
    IN [s1 EXCEPT !.att[r][a].pc = "consume",
                  !.att[r][a].tch = s1.chan[r],
                  !.att[r][a].tn = nm]

\* requests.createThresholdQueue is not exported by itemsense-requests.js:
\* the call throws a TypeError inside the try block
Provision(s, r, a, pcNext) ==
    IF r = "threshold" THEN FailAttempt(s, r, a, "provision")
    ELSE [s EXCEPT !.att[r][a].pc = pcNext]

FreshName(a) == a + 1

heartbeat_Millis(s) == Max(MIN_CONN_HEARTBEAT, s.optT.connectionHeartbeatInterval)

\* Math.max(MIN_CONN_HEARTBEAT, Math.floor(connectionHeartbeatInterval * 0.001))
heartbeat(s) == Max(MIN_CONN_HEARTBEAT, s.optT.connectionHeartbeatInterval \div 1000)

\* on success the attempt goes on to call amqp.connect({..., heartbeat})
isServerAvailableSettled(s, r, a, ok) ==
    IF ok THEN [s EXCEPT !.att[r][a].pc = "connect", !.co[r][a].hb = heartbeat(s)]
    ELSE FailAttempt(s, r, a, "liveness")

amqpConnectSettled(s, r, a, ok) ==
    IF ok THEN [s EXCEPT !.co[r][a].st = "open", !.conn[r] = a, !.att[r][a].pc = "channel"]
    ELSE FailAttempt(s, r, a, "connect")

createChannelSettled(s, r, a, ok) ==
    IF ok
    THEN LET s1 == [s EXCEPT !.ch[r][a][1] = [NewChan EXCEPT !.st = "open", !.ls = 1, !.on = a],
                             !.chan[r] = <<a, 1>>]
         IN IF r = "health" THEN Provision(s1, r, a, "create")
            ELSE IF s1.att[r][a].qn # NoName
                 THEN [s1 EXCEPT !.att[r][a].pc = "check"]
                 ELSE Provision(s1, r, a, "create")
    ELSE FailAttempt(s, r, a, "channel")

\* a failed checkQueue makes the broker close the channel, whose 'error'
\* listener fires before the rejection reaches the catch block
checkQueueSettled(s, r, a, ok) ==
    IF ok THEN Subscribe(s, r, a)
    ELSE LET h  == s.ch[r][a][1]
             s1 == IF h.st = "open"
                   THEN EmitChannelError([s EXCEPT !.ch[r][a][1].st = "closed"], r, h.ls)
                   ELSE s
         IN Provision(_emitEventMessage(s1, "error", "missing", 0), r, a, "create2")

createQueueSettled(s, r, a, ok) ==
    IF ~ok THEN FailAttempt(s, r, a, "provision")
    ELSE LET s1 == [s EXCEPT !.att[r][a].qn = FreshName(a)]
         IN IF s.att[r][a].pc = "create2"
            THEN [s1 EXCEPT !.att[r][a].pc = "channel2", !.att[r][a].tc = s1.conn[r]]
            ELSE IF r \in NamedRoles
                 THEN Subscribe([s1 EXCEPT !.opt[r] = FreshName(a)], r, a)
                 ELSE Subscribe(s1, r, a)

createChannel2Settled_NoRemember(s, r, a, ok) ==
    IF ok
    THEN LET s1 == [s EXCEPT !.ch[r][a][2] = [NewChan EXCEPT !.st = "open", !.ls = 1,
                                                            !.on = s.att[r][a].tc],
                             !.chan[r] = <<a, 2>>]
         IN Subscribe(s1, r, a)
    ELSE FailAttempt(s, r, a, "channel")

createChannel2Settled(s, r, a, ok) ==
    IF ok
    THEN LET s1 == [s EXCEPT !.ch[r][a][2] = [NewChan EXCEPT !.st = "open", !.ls = 1,
                                                            !.on = s.att[r][a].tc],
                             !.chan[r] = <<a, 2>>,
                             !.opt[r] = s.att[r][a].qn]
         IN Subscribe(s1, r, a)
    ELSE FailAttempt(s, r, a, "channel")

\* .then(() => emit connected) / .catch(err => { channel.removeAllListeners(); emit error })
consumeSettled(s, r, a, ok) ==
    LET h == s.att[r][a].tch
    IN IF ok
       THEN _emitEventMessage([s EXCEPT !.ch[r][h[1]][h[2]].cons = s.att[r][a].tn,
                                        !.att[r][a].pc = "done"],
                              ConnectedEvent(r), "queue", s.att[r][a].qn)
       ELSE LET s1 == IF s.ch[r][h[1]][h[2]].st = "open"
                      THEN EmitChannelError([s EXCEPT !.ch[r][h[1]][h[2]].st = "closed"],
                                            r, s.ch[r][h[1]][h[2]].ls)
                      ELSE s
            IN _emitEventMessage([chanRemoveAllListeners(s1, r) EXCEPT !.att[r][a].pc = "done"],
                                 "error", "consume", 0)

retryTimerCallback_Twice(s, r) ==
    _connectQueue(_connectQueue(chanRemoveAllListeners(connRemoveAllListeners(s, r), r), r), r)

\* the callback given to setTimeout by _retryConnectXQueue
retryTimerCallback(s, r) ==
    _connectQueue(chanRemoveAllListeners(connRemoveAllListeners(s, r), r), r)

(***************************** actions *************************************)
Init ==
    /\ started = FALSE
    /\ opt     = [r \in Roles |-> NoName]
    /\ conn    = [r \in Roles |-> 0]
    /\ chan    = [r \in Roles |-> NoChan]
    /\ handle  = [r \in Roles |-> FALSE]
    /\ timers  = [r \in Roles |-> 0]
    /\ att     = [r \in Roles |-> <<>>]
    /\ co      = [r \in Roles |-> <<>>]
    /\ ch      = [r \in Roles |-> <<>>]
    /\ emitted = <<>>
    /\ loss    = [r \in Roles |-> FALSE]
    /\ last    = [op |-> "init", r |-> "none", was |-> FALSE, cons |-> FALSE]
    /\ spent   = 0
    /\ budget  = MaxEvents
    /\ epoch   = [r \in Roles |-> 0]
    /\ optT    = DefaultTiming
    /\ delay   = [r \in Roles |-> 0]
    /\ timing  = DefaultTiming
    /\ errors  = 0
    /\ msg     = NoFrames(DefaultFilter)
    /\ probes  = <<>>
    /\ made    = NoCall
    /\ host    = Listening
    /\ active \in ActiveSets

Consuming(r) == \E a \in DOMAIN ch[r] : \E k \in {1, 2} :
                    ch[r][a][k].st = "open" /\ ch[r][a][k].cons # -1

Did(op, r) ==
    /\ last' = [op |-> op, r |-> r, was |-> started,
                cons |-> CASE op = "lost"  -> Consuming(r)
                           [] op = "timer" -> last.op = "lost" /\ last.r = r /\ last.cons
                           [] OTHER        -> FALSE]
    /\ epoch' = IF op = "start" /\ ~started THEN [q \in Roles |-> Len(att[q])] ELSE epoch
    /\ UNCHANGED <<active, budget, timing, msg, probes, made, host>>

\* the environment decides an awaited call: success needs the resource the call
\* goes through to be open; a failure on an open resource is an injected fault
Outcome(ok, canSucceed) ==
    /\ ok => canSucceed
    /\ IF ~ok /\ canSucceed
       THEN spent < budget /\ spent' = spent + 1
       ELSE spent' = spent

Fault == spent < budget /\ spent' = spent + 1

Start(cfg) ==
    /\ spent < budget
    /\ Set(start(Cur, cfg, timing))
    /\ Did("start", "none")
    /\ spent' = spent + 1

Shutdown ==
    /\ spent < budget
    /\ Set(shutdown(Cur))
    /\ Did("shutdown", "none")
    /\ spent' = spent + 1

\* a pending timer of role r fires: the one the handle refers to, or another one
TimerFire(r, mine) ==
    /\ IF mine THEN handle[r] ELSE timers[r] > (IF handle[r] THEN 1 ELSE 0)
    /\ started => spent < budget
    /\ Set(retryTimerCallback([Cur EXCEPT !.timers[r] = @ - 1,
                                          !.handle[r] = IF mine THEN FALSE ELSE @], r))
    /\ Did("timer", r)
    /\ spent' = IF started THEN spent + 1 ELSE spent

LivenessSettles(r, a, ok) ==
    /\ att[r][a].pc = "liveness"
    /\ Outcome(ok, TRUE)
    /\ Set(isServerAvailableSettled(Cur, r, a, ok))
    /\ Did("liveness", r)

ConnectSettles(r, a, ok) ==
    /\ att[r][a].pc = "connect"
    /\ Outcome(ok, TRUE)
    /\ Set(amqpConnectSettled(Cur, r, a, ok))
    /\ Did("connect", r)

CreateChannelSettles(r, a, ok) ==
    /\ att[r][a].pc = "channel"
    /\ Outcome(ok, co[r][a].st = "open")
    /\ Set(createChannelSettled(Cur, r, a, ok))
    /\ Did("channel", r)

CheckQueueSettles(r, a, ok) ==
    /\ att[r][a].pc = "check"
    /\ Outcome(ok, ch[r][a][1].st = "open")
    /\ Set(checkQueueSettled(Cur, r, a, ok))
    /\ Did("check", r)

CreateQueueSettles(r, a, ok) ==
    /\ att[r][a].pc \in {"create", "create2"}
    /\ Outcome(ok, TRUE)
    /\ Set(createQueueSettled(Cur, r, a, ok))
    /\ Did("create", r)

CreateChannel2Settles(r, a, ok) ==
    /\ att[r][a].pc = "channel2"
    /\ Outcome(ok, co[r][att[r][a].tc].st = "open")
    /\ Set(createChannel2Settled(Cur, r, a, ok))
    /\ Did("channel2", r)

ConsumeSettles(r, a, ok) ==
    /\ att[r][a].pc = "consume"
    /\ Outcome(ok, LET h == att[r][a].tch IN ch[r][h[1]][h[2]].st = "open")
    /\ Set(consumeSettled(Cur, r, a, ok))
    /\ Did("consume", r)

\* the socket fails or the heartbeat times out: 'error', then 'close' with the
\* error, in one tick
ConnectionLost(r, c) ==
    /\ co[r][c].st = "open" /\ co[r][c].ls > 0
    /\ Fault
    /\ Set(EmitClose(EmitError(ConnGone(Cur, r, c), r, co[r][c].ls), r, TRUE, co[r][c].ls))
    /\ Did("lost", r)

\* the broker closes the connection (e.g. it is restarting): 'close' with an error only
ConnectionClosedByBroker(r, c) ==
    /\ co[r][c].st = "open"
    /\ Fault
    /\ Set(EmitClose(ConnGone(Cur, r, c), r, TRUE, co[r][c].ls))
    /\ Did("closed", r)

\* a protocol error: 'error' now, the closing handshake follows
ConnectionError(r, c) ==
    /\ co[r][c].st = "open" /\ co[r][c].ls > 0
    /\ Fault
    /\ Set(EmitError(ChannelsGone([Cur EXCEPT !.co[r][c].st = "errored"], r, c), r, co[r][c].ls))
    /\ Did("error", r)

\* ... and ends in a 'close' without an error
ConnectionCloseClean(r, c) ==
    /\ co[r][c].st = "errored"
    /\ Set(EmitClose(ConnGone(Cur, r, c), r, FALSE, co[r][c].ls))
    /\ Did("closeclean", r)
    /\ UNCHANGED spent

\* the broker closes a channel with an error
ChannelError(r, a, k) ==
    /\ ch[r][a][k].st = "open"
    /\ Fault
    /\ Set(EmitChannelError([Cur EXCEPT !.ch[r][a][k].st = "closed",
                                        !.ch[r][a][k].cons = -1], r, ch[r][a][k].ls))
    /\ Did("chanerror", r)

\* the close() awaited by shutdown() completes: shutdown() resumes after it
ChannelCloseSettles(r, a, k) ==
    /\ ch[r][a][k].st = "closing"
    /\ Set(shutdownFrom([Cur EXCEPT !.ch[r][a][k].st = "closed", !.ch[r][a][k].k = 0],
                        ch[r][a][k].k + 1))
    /\ Did("chanclose", r)
    /\ UNCHANGED spent

ConnectionCloseSettles(r, c) ==
    /\ co[r][c].st = "closing"
    /\ Set(shutdownFrom(EmitClose([ConnGone(Cur, r, c) EXCEPT !.co[r][c].k = 0],
                                  r, FALSE, co[r][c].ls),
                        co[r][c].k + 1))
    /\ Did("connclose", r)
    /\ UNCHANGED spent

\* the closing handshake is never answered: the awaited close() never settles
ChannelCloseStalls(r, a, k) ==
    /\ ch[r][a][k].st = "closing"
    /\ Fault
    /\ Set([Cur EXCEPT !.ch[r][a][k].st = "stalled"])
    /\ Did("chanstall", r)

ConnectionCloseStalls(r, c) ==
    /\ co[r][c].st = "closing"
    /\ Fault
    /\ Set([Cur EXCEPT !.co[r][c].st = "stalled"])
    /\ Did("connstall", r)

Next ==
    \/ \E cfg \in Configs : Start(cfg)
    \/ Shutdown
    \/ \E r \in Roles, mine \in BOOLEAN : TimerFire(r, mine)
    \/ \E r \in active : \E a \in DOMAIN att[r], ok \in BOOLEAN : LivenessSettles(r, a, ok)
    \/ \E r \in active : \E a \in DOMAIN att[r], ok \in BOOLEAN : ConnectSettles(r, a, ok)
    \/ \E r \in active : \E a \in DOMAIN att[r], ok \in BOOLEAN : CreateChannelSettles(r, a, ok)
    \/ \E r \in active : \E a \in DOMAIN att[r], ok \in BOOLEAN : CheckQueueSettles(r, a, ok)
    \/ \E r \in active : \E a \in DOMAIN att[r], ok \in BOOLEAN : CreateQueueSettles(r, a, ok)
    \/ \E r \in active : \E a \in DOMAIN att[r], ok \in BOOLEAN : CreateChannel2Settles(r, a, ok)
    \/ \E r \in active : \E a \in DOMAIN att[r], ok \in BOOLEAN : ConsumeSettles(r, a, ok)
    \/ \E r \in Roles : \E c \in DOMAIN co[r] : ConnectionLost(r, c)
    \/ \E r \in Roles : \E c \in DOMAIN co[r] : ConnectionClosedByBroker(r, c)
    \/ \E r \in Roles : \E c \in DOMAIN co[r] : ConnectionError(r, c)
    \/ \E r \in Roles : \E c \in DOMAIN co[r] : ConnectionCloseClean(r, c)
    \/ \E r \in Roles : \E c \in DOMAIN co[r] : ConnectionCloseSettles(r, c)
    \/ \E r \in Roles : \E c \in DOMAIN co[r] : ConnectionCloseStalls(r, c)
    \/ \E r \in Roles : \E a \in DOMAIN ch[r], k \in {1, 2} : ChannelError(r, a, k)
    \/ \E r \in Roles : \E a \in DOMAIN ch[r], k \in {1, 2} : ChannelCloseSettles(r, a, k)
    \/ \E r \in Roles : \E a \in DOMAIN ch[r], k \in {1, 2} : ChannelCloseStalls(r, a, k)

Spec == Init /\ [][Next]_vars

(***************************************************************************)
(* Retrying: the application starts the connector with timing options of   *)
(* its choice and leaves it running; the liveness check may fail and a     *)
(* connection may be lost, every other call succeeds.  With fewer things   *)
(* that can go wrong the run may be two events longer.                     *)
(***************************************************************************)
InitRetry ==
    /\ started = FALSE
    /\ opt     = [r \in Roles |-> NoName]
    /\ conn    = [r \in Roles |-> 0]
    /\ chan    = [r \in Roles |-> NoChan]
    /\ handle  = [r \in Roles |-> FALSE]
    /\ timers  = [r \in Roles |-> 0]
    /\ att     = [r \in Roles |-> <<>>]
    /\ co      = [r \in Roles |-> <<>>]
    /\ ch      = [r \in Roles |-> <<>>]
    /\ emitted = <<>>
    /\ loss    = [r \in Roles |-> FALSE]
    /\ last    = [op |-> "init", r |-> "none", was |-> FALSE, cons |-> FALSE]
    /\ spent   = 0
    /\ budget  = MaxEvents + 2
    /\ epoch   = [r \in Roles |-> 0]
    /\ optT    = DefaultTiming
    /\ delay   = [r \in Roles |-> 0]
    /\ timing \in Timings
    /\ errors  = 0
    /\ msg     = NoFrames(DefaultFilter)
    /\ probes  = <<>>
    /\ made    = NoCall
    /\ host    = Listening
    /\ active \in ActiveSets

NextRetry ==
    \/ \E cfg \in Configs : ~started /\ Start(cfg)
    \/ \E r \in Roles : TimerFire(r, TRUE)
    \/ \E r \in active : \E a \in DOMAIN att[r], ok \in BOOLEAN : LivenessSettles(r, a, ok)
    \/ \E r \in active : \E a \in DOMAIN att[r] : ConnectSettles(r, a, TRUE)
    \/ \E r \in active : \E a \in DOMAIN att[r] : CreateChannelSettles(r, a, TRUE)
    \/ \E r \in active : \E a \in DOMAIN att[r] : CheckQueueSettles(r, a, TRUE)
    \/ \E r \in active : \E a \in DOMAIN att[r] : CreateQueueSettles(r, a, TRUE)
    \/ \E r \in active : \E a \in DOMAIN att[r] : ConsumeSettles(r, a, TRUE)
    \/ \E r \in Roles : \E c \in DOMAIN co[r] : ConnectionLost(r, c)

SpecRetry == InitRetry /\ [][NextRetry]_vars

(***************************** state predicates ****************************)
InFlight(r)  == \E a \in DOMAIN att[r] : att[r][a].pc # "done"

OpenConnection(r) == \E c \in DOMAIN co[r] : co[r][c].st = "open"

OpenChannel(r) == \E a \in DOMAIN ch[r] : \E k \in {1, 2} : ch[r][a][k].st = "open"

\* the objects a shutdown() is suspended on, and those whose close() will never settle
Awaited(st) ==
    \/ \E r \in Roles : \E c \in DOMAIN co[r] : co[r][c].st = st /\ co[r][c].k # 0
    \/ \E r \in Roles : \E a \in DOMAIN ch[r] : \E k \in {1, 2} :
          ch[r][a][k].st = st /\ ch[r][a][k].k # 0

\* nothing the environment owes the active roles is outstanding
Settled ==
    /\ \A r \in active : ~InFlight(r) /\ timers[r] = 0
    /\ ~Awaited("closing")
    /\ \A r \in Roles : \A c \in DOMAIN co[r] : co[r][c].st # "errored"

\* C1: at every instant at most one retry timer is pending for each role.
C1_AtMostOneRetryTimer == \A r \in Roles : timers[r] <= 1

\* a connection loss ran the 'error' and the 'close' handler in one tick: two
\* reschedules, one timer
C1_Witness == last.op = "lost" /\ timers[last.r] = 1 /\ handle[last.r]

\* C2: after a connection loss was reported to a consuming supervisor, the
\* connect attempt its retry timer begins starts with an empty remembered
\* queue name (so it provisions instead of validating the pre-loss name).
C2_NameClearedBeforeRetry ==
    [][\A r \in NamedRoles :
         (loss[r] /\ ~InFlight(r) /\ last'.op = "timer" /\ last'.r = r
                  /\ Len(att'[r]) > Len(att[r]))
            => att'[r][Len(att'[r])].qn = NoName]_vars

\* C3: when consume() fails, a retry timer is pending for the role afterwards.
C3_ConsumeFailureSchedulesRetry ==
    (last.op = "consume" /\ <<"error", "consume", 0>> \in {emitted[i] : i \in DOMAIN emitted})
        => timers[last.r] >= 1

\* C4: while the connector is started every supervisor is consuming, or has a
\* connect attempt in progress, or has a retry timer pending.
C4_NeverRestsWhileStarted ==
    started => \A r \in Roles : Consuming(r) \/ InFlight(r) \/ timers[r] > 0

\* C5: immediately after shutdown() no retry timer is pending for any role.
C5_ShutdownCancelsTimers ==
    last.op = "shutdown" => \A r \in Roles : timers[r] = 0

\* C6: after shutdown(), once everything outstanding has settled (and no close
\* stalled), no role has an open connection, an open channel or a consumer,
\* for as long as start() is not called.
C6_ShutdownReleasesEverything ==
    (~started /\ Settled /\ ~Awaited("stalled"))
        => \A r \in Roles : ~OpenConnection(r) /\ ~OpenChannel(r) /\ ~Consuming(r)

\* C7: while the connector is not started no connect attempt begins; a retry
\* timer firing then begins none.
C7_NoAttemptWhileStopped ==
    [][(~started /\ ~started') => \A r \in Roles : Len(att'[r]) = Len(att[r])]_vars

\* a retry timer fired after shutdown()
C7_Witness == last.op = "timer" /\ ~started /\ \E r \in Roles : att[r] # <<>>

\* C8: a shutdown() that follows a shutdown() with no start() in between, on a
\* connector whose connection is already closed, emits no event and starts no
\* close.
C8_ShutdownIdempotent ==
    (last.op = "shutdown" /\ ~last.was
        /\ \E r \in Roles : conn[r] # 0 /\ co[r][conn[r]].st = "closed")
        => emitted = <<>> /\ ~Awaited("closing")

\* C9: shutdown() is never left suspended on a close() that will not settle
\* while a resource it has yet to release stays open: once everything else has
\* settled, no shutdown() is still waiting in front of an open connection.
C9_ShutdownNeverBlocked ==
    Settled => ~(Awaited("stalled") /\ \E r \in Roles : OpenConnection(r))

\* C10: start() on a started connector changes nothing: no attempt, no option,
\* no timer, no event.
C10_StartIdempotent ==
    [][(last'.op = "start" /\ started)
         => /\ UNCHANGED <<started, opt, optT, conn, chan, handle, timers, delay, att, co,
                          ch, loss>>
            /\ emitted' = <<>>]_vars

\* start() with another queue name on a started connector with a pending timer
C10_Witness ==
    /\ last.op = "start" /\ last.was
    /\ \E r \in Roles : timers[r] = 1
    /\ \E r \in NamedRoles : \E a \in DOMAIN att[r] :
          att[r][a].pc # "done" /\ att[r][a].qn = CfgName

\* the events handed to the sink by the step just taken
Events(em) == {em[i] : i \in DOMAIN em}

\* C11: for every role, an attempt that began with an empty queue name goes on
\* to provision a queue once its channel is open, and when its consume()
\* succeeds the role is consuming and the role's Connected event carries the
\* provisioned queue name.
C11_EmptyNameAttemptConsumes ==
    [][\A r \in Roles : \A a \in DOMAIN att[r] :
         /\ (att[r][a].pc = "channel" /\ att[r][a].qn = NoName
                /\ ch'[r][a][1].st = "open")
               => att'[r][a].pc = "create"
         /\ (att[r][a].pc = "consume" /\ att'[r][a].pc = "done"
                /\ att[r][a].tn # NoName
                /\ \A e \in Events(emitted') : e[1] # "error")
               => /\ Consuming(r)'
                  /\ <<ConnectedEvent(r), "queue", att[r][a].tn>> \in Events(emitted')]_vars

\* C12: for every role, an attempt that began with a non-empty configured
\* queue name validates that name once its channel is open (it makes no
\* provisioning call), and when the validation succeeds it consumes from
\* exactly that name.
C12_ValidNameIsConsumed ==
    [][\A r \in Roles : \A a \in DOMAIN att[r] :
         LET name == IF r \in NamedRoles THEN att[r][a].qn ELSE opt[r]
         IN /\ (att[r][a].pc = "channel" /\ name # NoName /\ ch'[r][a][1].st = "open")
                  => att'[r][a].pc = "check"
            /\ (att[r][a].pc = "check" /\ att'[r][a].pc # "check"
                   /\ \A e \in Events(emitted') : e[1] # "error")
                  => att'[r][a].pc = "consume" /\ att'[r][a].tn = att[r][a].qn]_vars

\* the attempt failed at its provisioning call: reported, retry scheduled
ProvisioningFailed(r, a) ==
    /\ att'[r][a].pc = "done"
    /\ <<"error", "provision", 0>> \in Events(emitted')
    /\ timers'[r] >= 1 /\ handle'[r]

\* C13: when the validation of a configured name fails, the supervisor
\* reports the missing queue and provisions; a provisioned name is new; the
\* fresh channel is opened, the new name is remembered and consume() is called
\* on the fresh channel with the new name, which is the name consumed from
\* when consume() succeeds; a failed provisioning call is reported and a retry
\* is scheduled.
C13_InvalidNameIsReplaced ==
    [][\A r \in Roles : \A a \in DOMAIN att[r] :
         /\ (att[r][a].pc = "check" /\ att'[r][a].pc \notin {"check", "consume"})
               => /\ <<"error", "missing", 0>> \in Events(emitted')
                  /\ att'[r][a].pc = "create2" \/ ProvisioningFailed(r, a)
         /\ (att[r][a].pc = "create2" /\ att'[r][a].pc # "create2")
               => \/ /\ att'[r][a].pc = "channel2"
                     /\ att'[r][a].qn \notin {NoName, att[r][a].qn}
                  \/ ProvisioningFailed(r, a)
         /\ (att[r][a].pc = "channel2" /\ att'[r][a].pc = "consume")
               => /\ ch'[r][a][2].st = "open" /\ ch[r][a][2].st = "none"
                  /\ opt'[r] = att[r][a].qn
                  /\ att'[r][a].tch = <<a, 2>> /\ att'[r][a].tn = att[r][a].qn
         /\ (att[r][a].pc = "consume" /\ att[r][a].tch = <<a, 2>>
                /\ att'[r][a].pc = "done"
                /\ \A e \in Events(emitted') : e[1] # "error")
               => /\ ch'[r][a][2].cons = att[r][a].qn
                  /\ att[r][a].qn \notin {NoName, CfgName}]_vars

\* an item attempt whose configured name failed validation consumes from the
\* newly provisioned queue on its second channel
C13_Witness ==
    \E a \in DOMAIN ch["item"] :
        ch["item"][a][2].st = "open" /\ ch["item"][a][2].cons > CfgName

\* C14: after shutdown(), a start() that supplies the queue name N begins an
\* attempt which, when the validation of N succeeds, calls consume() with N
\* (it provisions nothing), and N is the name consumed from when consume()
\* succeeds.
C14_RestartWithOldName ==
    [][\A r \in NamedRoles :
         LET a == epoch[r] + 1
         IN (epoch[r] > 0 /\ a \in DOMAIN att[r] /\ started /\ started'
                /\ att[r][a].qn = CfgName
                /\ \A e \in Events(emitted') : e[1] # "error")
              => /\ (att[r][a].pc = "check" /\ att'[r][a].pc # "check")
                       => att'[r][a].pc = "consume" /\ att'[r][a].tn = CfgName
                 /\ (att[r][a].pc = "consume" /\ att'[r][a].pc = "done")
                       => LET h == att[r][a].tch
                          IN ch'[r][h[1]][h[2]].cons = CfgName]_vars

\* C15: the delay of the pending retry timer of every role is
\* max(1000, connectionRetryInterval) milliseconds.
C15_RetryDelay ==
    \A r \in Roles :
        handle[r] => /\ delay[r] >= 1000
                     /\ delay[r] >= optT.connectionRetryInterval
                     /\ delay[r] \in {1000, optT.connectionRetryInterval}

\* a retry was scheduled under a configured interval below the minimum
C15_Witness ==
    \E r \in Roles : handle[r] /\ optT.connectionRetryInterval = 999 /\ delay[r] = 1000

\* C16: the heartbeat of every broker connection is
\* max(1, floor(connectionHeartbeatInterval / 1000)) seconds.
C16_Heartbeat ==
    \A r \in Roles : \A c \in DOMAIN co[r] :
        co[r][c].st = "open" =>
            LET ms == optT.connectionHeartbeatInterval
                hb == co[r][c].hb
            IN /\ hb >= 1
               /\ ms < 1000 => hb = 1
               /\ ms >= 1000 => hb * 1000 <= ms /\ ms < (hb + 1) * 1000

\* a connection was opened under a configured interval of 1999 ms
C16_Witness ==
    \E r \in Roles : \E c \in DOMAIN co[r] :
        co[r][c].st = "open" /\ optT.connectionHeartbeatInterval = 1999 /\ co[r][c].hb = 1

(***************************** C17 *****************************************)
\* the attempts of role r that ended at the liveness check: done, and no
\* broker connection was ever opened for them
FailedLiveness(r) ==
    {b \in DOMAIN att[r] : att[r][b].pc = "done" /\ co[r][b].st = "none"}

\* C17: when the liveness check of a role failed n times in a row and the
\* attempt after them got through every later step (the role consumes and no
\* attempt of it ended any other way), then exactly n 'error' events were
\* emitted, exactly n retries were scheduled (each began one attempt, none is
\* pending), the n failed attempts opened no broker connection, and the
\* consumer sits on the channel of attempt n + 1.
C17_LivenessFailuresThenConsuming ==
    \A r \in active :
        LET n == Cardinality(FailedLiveness(r))
        IN (/\ Consuming(r)
            /\ \A b \in DOMAIN co[r] : co[r][b].st \in {"none", "open"})
             => /\ errors = n
                /\ Len(att[r]) = n + 1
                /\ timers[r] = 0 /\ ~handle[r]
                /\ FailedLiveness(r) = 1 .. n
                /\ co[r][n + 1].st = "open"
                /\ \E k \in {1, 2} : /\ ch[r][n + 1][k].st = "open"
                                     /\ ch[r][n + 1][k].cons # -1

C17_Witness ==
    \E r \in active : /\ Consuming(r)
                      /\ Cardinality(FailedLiveness(r)) = 2
                      /\ errors = 2
                      /\ Len(att[r]) = 3

(***************************** C18 *****************************************)
\* C18: every step in which a connection closes without an error (the close
\* that shutdown() awaits, or the close that ends an errored connection) hands
\* a connection-closed event to the sink and schedules no retry.
C18_CleanCloseReported ==
    [][last'.op \in {"connclose", "closeclean"}
          => /\ \E e \in Events(emitted') : e[1] = "amqpConnectionClosed"
             /\ timers' = timers
             /\ handle' = handle]_vars

(***************************** C19 *****************************************)
\* the attempts of role r that are under way
Running(r) == {a \in DOMAIN att[r] : att[r][a].pc # "done"}

\* C19: a connection loss on a consuming supervisor (the 'error' handler, then
\* the 'close' handler with that error, run in one step) begins no attempt
\* itself and leaves exactly one retry pending, due max(1000,
\* connectionRetryInterval) ms after the last reschedule; when that retry comes
\* due on a started connector it begins exactly one attempt and leaves no
\* retry pending.
C19_OneLossOneAttempt ==
    [][\A r \in Roles :
         /\ (last'.op = "lost" /\ last'.r = r /\ Consuming(r))
               => /\ timers'[r] = 1 /\ handle'[r]
                  /\ delay'[r] = Max(1000, optT.connectionRetryInterval)
                  /\ att'[r] = att[r]
         /\ (last'.op = "timer" /\ last'.r = r /\ started /\ loss[r])
               => /\ Len(att'[r]) = Len(att[r]) + 1
                  /\ Running(r)' = Running(r) \cup {Len(att[r]) + 1}
                  /\ timers'[r] = 0 /\ ~handle'[r]]_vars

\* the retry that a loss on a consuming supervisor left pending has begun the
\* one attempt
C19_Witness ==
    /\ last.op = "timer" /\ last.was /\ last.cons
    /\ \E r \in Roles : /\ last.r = r
                         /\ Len(att[r]) = 2
                         /\ att[r][2].pc = "liveness"
                         /\ co[r][1].st = "closed"
                         /\ timers[r] = 0

(***************************** consume callback ****************************)
MessageEvent(r) ==
    CASE r = "item"      -> "itemQueueMessage"
      [] r = "threshold" -> "thresholdQueueMessage"
      [] r = "health"    -> "healthQueueMessage"

\* Date.now() - Date.parse(json.observationTime): NaN when the text is no date
delta(f) == IF f.obs = "date" THEN [nan |-> FALSE, ms |-> f.age] ELSE [nan |-> TRUE, ms |-> 0]

Greater_OrEqual(x, d) == ~x.nan /\ x.ms >= d

\* x > d in JavaScript: false when x is NaN
Greater(x, d) == ~x.nan /\ x.ms > d

onMessage_AbsentAlwaysDropped(m, r, f) ==
    LET m1 == [m EXCEPT !.got = Append(@, f),
                        !.acks  = IF m.own THEN @ + 1 ELSE @,
                        !.stray = IF m.own THEN @ ELSE @ + 1]
        throw == [m1 EXCEPT !.threw = @ + 1]
        drop  == m1
    IN IF f.kind = "garbage" THEN throw
       ELSE IF m.o.ignoreAbsent /\ f.kind = "null" THEN throw
       ELSE IF f.kind = "object" /\ f.toZone = "ABSENT" THEN drop
       ELSE IF m.o.maxObservationTimeDelta > 0 /\ f.kind = "null"
            THEN [m1 EXCEPT !.sink = Append(@, <<"error", f>>)]
       ELSE IF m.o.maxObservationTimeDelta > 0
               /\ Greater(delta(f), m.o.maxObservationTimeDelta)
            THEN drop
       ELSE [m1 EXCEPT !.sink = Append(@, <<MessageEvent(r), f>>)]

\* msg => { ... } given to consume(): m is the callback's record, f the frame.
\* this._xQueueChannel.ack(msg) comes first and goes through the channel the
\* field refers to when the frame arrives (own: that is the channel the frame
\* came on); JSON.parse(content) is outside every try, so a payload
\* that is not JSON throws out of the callback; json.toZone on null throws as
\* well; the try covers only the reading and parsing of observationTime.
onMessage(m, r, f) ==
    LET m1 == [m EXCEPT !.got = Append(@, f),
                        !.acks  = IF m.own THEN @ + 1 ELSE @,
                        !.stray = IF m.own THEN @ ELSE @ + 1]
        throw == [m1 EXCEPT !.threw = @ + 1]
        drop  == m1
    IN IF f.kind = "garbage" THEN throw
       ELSE IF m.o.ignoreAbsent /\ f.kind = "null" THEN throw
       ELSE IF m.o.ignoreAbsent /\ f.toZone = "ABSENT" THEN drop
       ELSE IF m.o.maxObservationTimeDelta > 0 /\ f.kind = "null"
            THEN [m1 EXCEPT !.sink = Append(@, <<"error", f>>)]
       ELSE IF m.o.maxObservationTimeDelta > 0
               /\ Greater(delta(f), m.o.maxObservationTimeDelta)
            THEN drop
       ELSE [m1 EXCEPT !.sink = Append(@, <<MessageEvent(r), f>>)]

\* the broker delivers frame f to the consumer of role active
Deliver(r, f) ==
    /\ Len(msg.got) < MaxFrames
    /\ msg' = onMessage(msg, r, f)
    /\ UNCHANGED <<started, opt, conn, chan, handle, timers, att, co, ch, emitted, loss,
                   last, spent, budget, epoch, active, optT, delay, timing, errors, probes, made, host>>

InitDeliver ==
    /\ started = FALSE
    /\ opt     = [r \in Roles |-> NoName]
    /\ conn    = [r \in Roles |-> 0]
    /\ chan    = [r \in Roles |-> NoChan]
    /\ handle  = [r \in Roles |-> FALSE]
    /\ timers  = [r \in Roles |-> 0]
    /\ att     = [r \in Roles |-> <<>>]
    /\ co      = [r \in Roles |-> <<>>]
    /\ ch      = [r \in Roles |-> <<>>]
    /\ emitted = <<>>
    /\ loss    = [r \in Roles |-> FALSE]
    /\ last    = [op |-> "init", r |-> "none", was |-> FALSE, cons |-> FALSE]
    /\ spent   = 0
    /\ budget  = MaxEvents
    /\ epoch   = [r \in Roles |-> 0]
    /\ optT    = DefaultTiming
    /\ delay   = [r \in Roles |-> 0]
    /\ timing  = DefaultTiming
    /\ errors  = 0
    /\ active \in ActiveSets
    /\ \E o \in Filters, own \in BOOLEAN : msg = [NoFrames(o) EXCEPT !.own = own]
    /\ probes  = <<>>
    /\ made    = NoCall
    /\ host    = Listening

NextDeliver == \E r \in active : \E f \in Frames : Deliver(r, f)

SpecDeliver == InitDeliver /\ [][NextDeliver]_vars

(***************************** liveness check ******************************)
REQUEST_TIMEOUT == 5000

\* what the server does with the request: it never answers, the socket fails,
\* or it answers after `at` ms with a status code and a body that is JSON or
\* some other text
Responses ==
    {[kind |-> "silent"], [kind |-> "refused"]}
    \cup [kind : {"answer"}, at : {100, 6000}, status : {199, 200, 299, 300, 401, 500},
          body : {"json", "text"}]

\* isServerAvailable(): the ways the returned promise can come out. The first
\* of the socket timeout and the response decides; 401 and the other statuses
\* outside 200..299 reject; otherwise resolve(JSON.parse(body)) is called in
\* the 'end' listener without a try: a body that is not JSON throws there and
\* the promise stays pending unless the socket timeout rejects it later.
isServerAvailable(resp) ==
    IF resp.kind = "silent" THEN {"Timeout"}
    ELSE IF resp.kind = "refused" THEN {"ConnectionError"}
    ELSE IF resp.at > REQUEST_TIMEOUT THEN {"Timeout"}
    ELSE IF resp.status = 401 THEN {"Unauthorized"}
    ELSE IF resp.status < 200 \/ resp.status >= 300 THEN {"ServerError"}
    ELSE IF resp.body = "json" THEN {"ok"}
    ELSE {"pending", "Timeout"}

\* one call of the liveness check
Probe(resp, out) ==
    /\ Len(probes) < MaxProbes
    /\ out \in isServerAvailable(resp)
    /\ probes' = Append(probes, [resp |-> resp, out |-> out])
    /\ UNCHANGED <<started, opt, conn, chan, handle, timers, att, co, ch, emitted, loss,
                   last, spent, budget, epoch, active, optT, delay, timing, errors, msg, made, host>>

InitLiveness ==
    /\ started = FALSE
    /\ opt     = [r \in Roles |-> NoName]
    /\ conn    = [r \in Roles |-> 0]
    /\ chan    = [r \in Roles |-> NoChan]
    /\ handle  = [r \in Roles |-> FALSE]
    /\ timers  = [r \in Roles |-> 0]
    /\ att     = [r \in Roles |-> <<>>]
    /\ co      = [r \in Roles |-> <<>>]
    /\ ch      = [r \in Roles |-> <<>>]
    /\ emitted = <<>>
    /\ loss    = [r \in Roles |-> FALSE]
    /\ last    = [op |-> "init", r |-> "none", was |-> FALSE, cons |-> FALSE]
    /\ spent   = 0
    /\ budget  = MaxEvents
    /\ epoch   = [r \in Roles |-> 0]
    /\ optT    = DefaultTiming
    /\ delay   = [r \in Roles |-> 0]
    /\ timing  = DefaultTiming
    /\ errors  = 0
    /\ msg     = NoFrames(DefaultFilter)
    /\ probes  = <<>>
    /\ made    = NoCall
    /\ host    = Listening
    /\ active  = {"item"}

NextLiveness ==
    \E resp \in Responses : \E out \in {"ok", "Unauthorized", "ServerError", "Timeout",
                                        "ConnectionError", "pending"} : Probe(resp, out)

SpecLiveness == InitLiveness /\ [][NextLiveness]_vars

(***************************** C20 *****************************************)
\* C20: a frame whose payload is not JSON is reported as an 'error' event and
\* not handed to the listeners as a message, and no delivery ends with an
\* exception thrown out of the callback.
C20_UndecodableFrameReported ==
    /\ msg.threw = 0
    /\ \A i \in DOMAIN msg.got :
          msg.got[i].kind = "garbage"
             => \E j \in DOMAIN msg.sink :
                   msg.sink[j][1] = "error" /\ msg.sink[j][2] = msg.got[i]

(***************************** C21 *****************************************)
\* the frame was handed to the listeners as a message event of role active
Delivered(f) ==
    \E r \in active : \E j \in DOMAIN msg.sink : msg.sink[j] = <<MessageEvent(r), f>>

\* an 'error' event was handed to the sink for the frame
Reported(f) == \E j \in DOMAIN msg.sink : msg.sink[j] = <<"error", f>>

\* C21: with maxObservationTimeDelta > 0, a message whose observationTime is
\* not a date (and that the ABSENT rule does not reject) is not handed to the
\* listeners and an 'error' event is reported for it.
C21_UnparsableTimeReported ==
    msg.o.maxObservationTimeDelta > 0
       => \A i \in DOMAIN msg.got :
             (/\ msg.got[i].kind = "object" /\ msg.got[i].obs = "text"
              /\ ~(msg.o.ignoreAbsent /\ msg.got[i].toZone = "ABSENT"))
                => ~Delivered(msg.got[i]) /\ Reported(msg.got[i])

(***************************** C22 *****************************************)
\* the frames delivered so far that decode to an object with toZone 'ABSENT'
AbsentFrames ==
    {msg.got[i] : i \in {j \in DOMAIN msg.got : /\ msg.got[j].kind = "object"
                                                 /\ msg.got[j].toZone = "ABSENT"}}

\* C22 as stated: a decodable message with toZone 'ABSENT' is handed to the
\* listeners if and only if ignoreAbsent is false, whatever the other options.
C22_AbsentIffNotIgnored ==
    \A f \in AbsentFrames : Delivered(f) <=> ~msg.o.ignoreAbsent

\* the staleness rule drops the message: the rule is on, the observationTime is
\* a date and it is more than maxObservationTimeDelta ms old
Stale(f) ==
    /\ msg.o.maxObservationTimeDelta > 0
    /\ f.obs = "date"
    /\ f.age > msg.o.maxObservationTimeDelta

\* C22, amended: a decodable message with toZone 'ABSENT' is never handed to
\* the listeners when ignoreAbsent is true; when ignoreAbsent is false it is
\* handed to them unless the staleness rule drops it.
C22_AbsentIffNotIgnoredNorStale ==
    \A f \in AbsentFrames : Delivered(f) <=> (~msg.o.ignoreAbsent /\ ~Stale(f))

\* both cases of the ABSENT rule have happened: an ABSENT message went through
\* with ignoreAbsent false, or was held back with ignoreAbsent true although it
\* was fresh
C22_Witness ==
    \E f \in AbsentFrames :
        /\ f.obs = "date" /\ f.age = 4
        /\ msg.o.maxObservationTimeDelta = 5
        /\ Len(msg.got) = 2
        /\ (msg.o.ignoreAbsent <=> ~Delivered(f))

(***************************** C23 *****************************************)
\* the frames delivered so far that decode to an object whose observationTime
\* is a date and that the ABSENT rule does not reject
DatedFrames ==
    {msg.got[i] : i \in {j \in DOMAIN msg.got :
                            /\ msg.got[j].kind = "object"
                            /\ msg.got[j].obs = "date"
                            /\ ~(msg.o.ignoreAbsent /\ msg.got[j].toZone = "ABSENT")}}

MessageFrames ==
    LET evs == SelectSeq(msg.sink, LAMBDA e : \E r \in active : e[1] = MessageEvent(r))
    IN [i \in DOMAIN evs |-> evs[i][2]]

\* C24: when every frame delivered so far was decodable, the message events
\* handed to the sink are exactly the frames that pass the admission filter,
\* in the order of delivery, each once. A decoded message passes the filter
\* unless ignoreAbsent is set and its toZone is 'ABSENT', or
\* maxObservationTimeDelta = D > 0 and its observationTime is more than D ms
\* old or is not a time at all.
C24_EventsAreAdmittedFramesInOrder ==
    LET D == msg.o.maxObservationTimeDelta
        Admitted(f) ==
            IF f.kind = "null" THEN D <= 0
            ELSE /\ ~(msg.o.ignoreAbsent /\ f.toZone = "ABSENT")
                 /\ D > 0 => (f.obs = "date" /\ f.age <= D)
    IN (\A i \in DOMAIN msg.got : msg.got[i].kind # "garbage")
          => MessageFrames = SelectSeq(msg.got, Admitted)

(***************************** C25 *****************************************)
\* C25: every frame delivered to the consumer has been acknowledged once, on
\* the channel it came on, whether it was then decoded, filtered out or handed
\* to the listeners; no acknowledgement went to another channel.
C25_AckedExactlyOnce ==
    /\ msg.acks = Len(msg.got)
    /\ msg.stray = 0

(***************************** C26 *****************************************)
\* the events of a step that report a failure or a loss
Reports(em) == {i \in DOMAIN em : em[i][1] \in {"error", "amqpConnectionClosed"}}

\* C26: a step in which a connect attempt of a role ends in failure (at the
\* liveness check, the broker connect, a channel open, the provisioning call
\* or the consumer registration), and a step in which an open connection of
\* the role is lost, hands exactly one reporting event to the sink.
C26_FailureReportedOnce ==
    [][\A r \in Roles :
         (/\ last'.r = r
          /\ \/ last'.op = "lost"
             \/ /\ last'.op \in {"liveness", "connect", "channel", "create", "channel2",
                                 "consume"}
                /\ \E a \in DOMAIN att[r] : att[r][a].pc # "done" /\ att'[r][a].pc = "done"
                /\ \A e \in Events(emitted') : e[1] # ConnectedEvent(r))
            => Cardinality(Reports(emitted')) = 1]_vars

(***************************** C27 *****************************************)
\* C27: a step in which a channel of a role fails with a channel-level error
\* hands an 'error' event to the sink and leaves the retry timers, the
\* remembered queue names, the connections, the connection fields, the
\* attempts and _started as they were.
C27_ChannelErrorOnlyReported ==
    [][\A r \in Roles :
         (last'.op = "chanerror" /\ last'.r = r)
            => /\ emitted' = << <<"error", "channel", 0>> >>
               /\ UNCHANGED <<timers, handle, delay, opt, co, conn, chan, att, started, loss>>]_vars

(***************************************************************************)
(* Two roles side by side: the server and the broker answer the requests   *)
(* of two roles, any awaited call may fail, connections may be lost and    *)
(* channels may fail; the application starts the connector once.           *)
(***************************************************************************)
ActivePairs == {{r, q} : r, q \in Roles} \ ActiveSets

InitPair ==
    /\ started = FALSE
    /\ opt     = [r \in Roles |-> NoName]
    /\ conn    = [r \in Roles |-> 0]
    /\ chan    = [r \in Roles |-> NoChan]
    /\ handle  = [r \in Roles |-> FALSE]
    /\ timers  = [r \in Roles |-> 0]
    /\ att     = [r \in Roles |-> <<>>]
    /\ co      = [r \in Roles |-> <<>>]
    /\ ch      = [r \in Roles |-> <<>>]
    /\ emitted = <<>>
    /\ loss    = [r \in Roles |-> FALSE]
    /\ last    = [op |-> "init", r |-> "none", was |-> FALSE, cons |-> FALSE]
    /\ spent   = 0
    /\ budget  = MaxEvents
    /\ epoch   = [r \in Roles |-> 0]
    /\ optT    = DefaultTiming
    /\ delay   = [r \in Roles |-> 0]
    /\ timing  = DefaultTiming
    /\ errors  = 0
    /\ msg     = NoFrames(DefaultFilter)
    /\ probes  = <<>>
    /\ made    = NoCall
    /\ host    = Listening
    /\ active \in ActivePairs

NextPair ==
    \/ \E cfg \in Configs : ~started /\ Start(cfg)
    \/ \E r \in Roles : TimerFire(r, TRUE)
    \/ \E r \in active : \E a \in DOMAIN att[r], ok \in BOOLEAN : LivenessSettles(r, a, ok)
    \/ \E r \in active : \E a \in DOMAIN att[r], ok \in BOOLEAN : ConnectSettles(r, a, ok)
    \/ \E r \in active : \E a \in DOMAIN att[r], ok \in BOOLEAN : CreateChannelSettles(r, a, ok)
    \/ \E r \in active : \E a \in DOMAIN att[r], ok \in BOOLEAN : CheckQueueSettles(r, a, ok)
    \/ \E r \in active : \E a \in DOMAIN att[r], ok \in BOOLEAN : CreateQueueSettles(r, a, ok)
    \/ \E r \in active : \E a \in DOMAIN att[r], ok \in BOOLEAN : CreateChannel2Settles(r, a, ok)
    \/ \E r \in active : \E a \in DOMAIN att[r], ok \in BOOLEAN : ConsumeSettles(r, a, ok)
    \/ \E r \in Roles : \E c \in DOMAIN co[r] : ConnectionLost(r, c)
    \/ \E r \in Roles : \E a \in DOMAIN ch[r], k \in {1, 2} : ChannelError(r, a, k)

SpecPair == InitPair /\ [][NextPair]_vars

(***************************** C28 *****************************************)
\* the steps that belong to one role's supervisor: an awaited call of a connect
\* attempt settles (with success or failure), a retry comes due, a connection
\* is lost, a channel fails
SupervisorSteps ==
    {"liveness", "connect", "channel", "check", "create", "channel2", "consume",
     "timer", "lost", "chanerror"}

\* C28: a step of one role's supervisor leaves the connections, channels,
\* fields, remembered queue name, retry timer and attempts of the other two
\* roles unchanged.
C28_RolesIndependent ==
    [][\A r \in Roles :
         (last'.r = r /\ last'.op \in SupervisorSteps)
            => \A q \in Roles \ {r} :
                  /\ co'[q] = co[q] /\ ch'[q] = ch[q]
                  /\ conn'[q] = conn[q] /\ chan'[q] = chan[q]
                  /\ opt'[q] = opt[q]
                  /\ timers'[q] = timers[q] /\ handle'[q] = handle[q]
                  /\ delay'[q] = delay[q]
                  /\ att'[q] = att[q] /\ loss'[q] = loss[q]]_vars

\* one role has just lost its connection and waits for its retry while another
\* role goes on consuming with no retry pending
C28_Witness ==
    /\ last.op = "lost"
    /\ timers[last.r] = 1
    /\ \E q \in Roles \ {last.r} : Consuming(q) /\ timers[q] = 0 /\ opt[q] # NoName

(***************************** C29 *****************************************)
\* what _emitEventMessage hands over for an event e = <<name, payload, ...>>:
\* process.send({event, data: message}) when run as a child process,
\* this.emit(event, message) otherwise
processSend(e) == [event |-> e[1], data |-> <<e[2], e[3]>>]
emit(e) == <<e[1], <<e[2], e[3]>>>>

\* the names of the events handed to the sink by the last step and by the
\* consume callback
EventNames ==
    {e[1] : e \in Events(emitted)} \cup {msg.sink[j][1] : j \in DOMAIN msg.sink}

C30_LivenessClassification ==
    \A i \in DOMAIN probes :
        LET resp == probes[i].resp
            out  == probes[i].out
        IN /\ resp.kind = "silent" => out = "Timeout"
           /\ resp.kind = "answer" =>
                 IF resp.at > 5000 THEN out = "Timeout"
                 ELSE IF resp.status = 401 THEN out = "Unauthorized"
                 ELSE IF resp.status \notin 200 .. 299 THEN out = "ServerError"
                 ELSE out = "ok"

\* ---------------------------------------------------------------------------
\* createOptions as a pure function
\* ---------------------------------------------------------------------------

\* the application calls createOptions(made.given)
CreateOptions ==
    /\ made.out = <<>>
    /\ made' = [made EXCEPT !.out = <<createOptions(made.given)>>]
    /\ UNCHANGED <<started, opt, conn, chan, handle, timers, att, co, ch, emitted, loss,
                   last, spent, budget, epoch, active, optT, delay, timing, errors, msg,
                   probes, host>>

InitOptions ==
    /\ started = FALSE
    /\ opt     = [r \in Roles |-> NoName]
    /\ conn    = [r \in Roles |-> 0]
    /\ chan    = [r \in Roles |-> NoChan]
    /\ handle  = [r \in Roles |-> FALSE]
    /\ timers  = [r \in Roles |-> 0]
    /\ att     = [r \in Roles |-> <<>>]
    /\ co      = [r \in Roles |-> <<>>]
    /\ ch      = [r \in Roles |-> <<>>]
    /\ emitted = <<>>
    /\ loss    = [r \in Roles |-> FALSE]
    /\ last    = [op |-> "init", r |-> "none", was |-> FALSE, cons |-> FALSE]
    /\ spent   = 0
    /\ budget  = MaxEvents
    /\ epoch   = [r \in Roles |-> 0]
    /\ optT    = DefaultTiming
    /\ delay   = [r \in Roles |-> 0]
    /\ timing  = DefaultTiming
    /\ errors  = 0
    /\ msg     = NoFrames(DefaultFilter)
    /\ probes  = <<>>
    /\ active  = {"item"}
    /\ host    = Listening
    /\ made \in [given : Overrides, out : {<<>>}]

NextOptions == CreateOptions

SpecOptions == InitOptions /\ [][NextOptions]_vars

\* C31: createOptions() called with no overrides returns the documented
\* defaults: connectionRetryInterval 5000, connectionHeartbeatInterval 30000,
\* hostname 127.0.0.1, port 80, ignoreAbsent false, maxObservationTimeDelta 0
\* and an empty itemQueueName.
C31_DocumentedDefaults ==
    (made.given.has = {} /\ made.out # <<>>) =>
        /\ made.out[1].connectionRetryInterval     = 5000
        /\ made.out[1].connectionHeartbeatInterval = 30000
        /\ made.out[1].hostname                    = "127.0.0.1"
        /\ made.out[1].port                        = 80
        /\ made.out[1].ignoreAbsent                = FALSE
        /\ made.out[1].maxObservationTimeDelta     = 0
        /\ made.out[1].itemQueueName               = ""

\* C32: under any interleaving of start(), shutdown(), timer firings and
\* completions of suspended steps, at most one connect attempt of a role is in
\* progress at any instant.
C32_OneAttemptPerRole == \A r \in Roles : Cardinality(Running(r)) <= 1

\* ---------------------------------------------------------------------------
\* recovery: a started connector that is never shut down; awaited calls
\* succeed or fail, connections are lost, and what is pending comes due
\* ---------------------------------------------------------------------------

\* an awaited call of role r settles
SettleStep(r) ==
    \E a \in DOMAIN att[r], ok \in BOOLEAN :
        \/ LivenessSettles(r, a, ok)
        \/ ConnectSettles(r, a, ok)
        \/ CreateChannelSettles(r, a, ok)
        \/ CheckQueueSettles(r, a, ok)
        \/ CreateQueueSettles(r, a, ok)
        \/ CreateChannel2Settles(r, a, ok)
        \/ ConsumeSettles(r, a, ok)

NextRecover ==
    \/ \E cfg \in Configs : ~started /\ Start(cfg)
    \/ \E r \in Roles : TimerFire(r, TRUE)
    \/ \E r \in active : \E a \in DOMAIN att[r], ok \in BOOLEAN : LivenessSettles(r, a, ok)
    \/ \E r \in active : \E a \in DOMAIN att[r], ok \in BOOLEAN : ConnectSettles(r, a, ok)
    \/ \E r \in active : \E a \in DOMAIN att[r], ok \in BOOLEAN : CreateChannelSettles(r, a, ok)
    \/ \E r \in active : \E a \in DOMAIN att[r], ok \in BOOLEAN : CheckQueueSettles(r, a, ok)
    \/ \E r \in active : \E a \in DOMAIN att[r], ok \in BOOLEAN : CreateQueueSettles(r, a, ok)
    \/ \E r \in active : \E a \in DOMAIN att[r], ok \in BOOLEAN : CreateChannel2Settles(r, a, ok)
    \/ \E r \in active : \E a \in DOMAIN att[r], ok \in BOOLEAN : ConsumeSettles(r, a, ok)
    \/ \E r \in Roles : \E c \in DOMAIN co[r] : ConnectionLost(r, c)

\* the event loop runs every timer that is due and every callback of a settled
\* promise; the application calls start()
SpecRecover ==
    /\ Init /\ [][NextRecover]_vars
    /\ WF_vars(\E cfg \in Configs : ~started /\ Start(cfg))
    /\ \A r \in Roles : WF_vars(TimerFire(r, TRUE))
    /\ \A r \in Roles : WF_vars(r \in active /\ SettleStep(r))

\* C33: when the connector is started and never shut down, and from some
\* point on every awaited step succeeds, every role's supervisor eventually
\* consumes (as far as the run goes: a run ends when its events are spent).
C33_RecoversToConsuming ==
    \A r \in Roles :
        (started /\ r \in active) ~> (Consuming(r) \/ spent >= budget)

\* C34: at any instant each role has at most one open broker connection
\* created by the connector.
C34_OneOpenConnection ==
    \A r \in Roles : Cardinality({c \in DOMAIN co[r] : co[r][c].st = "open"}) <= 1

\* the consumers of role r that are registered and delivering
Consumers(r) ==
    {<<a, k>> \in (DOMAIN ch[r]) \X {1, 2} : ch[r][a][k].st = "open" /\ ch[r][a][k].cons # -1}

\* C35: at any instant each role has at most one registered consumer
\* delivering message events, whatever the interleaving of shutdown() and
\* start() with suspended attempts and pending retry timers.
C35_OneConsumerPerRole == \A r \in Roles : Cardinality(Consumers(r)) <= 1

\* C36: whenever a role's Connected event is emitted, the queue name it
\* carries is the name that was passed to consume() for that attempt and, for
\* the roles that remember a name, the queue name in the options.
C36_ConnectedNameAgrees ==
    [][\A r \in Roles : \A a \in DOMAIN att[r] :
         (/\ att[r][a].pc = "consume" /\ att'[r][a].pc = "done"
          /\ Len(emitted') = Len(emitted) + 1
          /\ emitted'[Len(emitted')][1] = ConnectedEvent(r))
            => /\ emitted'[Len(emitted')][3] = att[r][a].tn
               /\ r \in NamedRoles => emitted'[Len(emitted')][3] = opt'[r]]_vars

\* ---------------------------------------------------------------------------
\* the connect steps under every way of using the module: as a child process
\* or in-process, with or without a listener for 'error'
\* ---------------------------------------------------------------------------

InitHost ==
    /\ started = FALSE
    /\ opt     = [r \in Roles |-> NoName]
    /\ conn    = [r \in Roles |-> 0]
    /\ chan    = [r \in Roles |-> NoChan]
    /\ handle  = [r \in Roles |-> FALSE]
    /\ timers  = [r \in Roles |-> 0]
    /\ att     = [r \in Roles |-> <<>>]
    /\ co      = [r \in Roles |-> <<>>]
    /\ ch      = [r \in Roles |-> <<>>]
    /\ emitted = <<>>
    /\ loss    = [r \in Roles |-> FALSE]
    /\ last    = [op |-> "init", r |-> "none", was |-> FALSE, cons |-> FALSE]
    /\ spent   = 0
    /\ budget  = MaxEvents
    /\ epoch   = [r \in Roles |-> 0]
    /\ optT    = DefaultTiming
    /\ delay   = [r \in Roles |-> 0]
    /\ timing  = DefaultTiming
    /\ errors  = 0
    /\ msg     = NoFrames(DefaultFilter)
    /\ probes  = <<>>
    /\ made    = NoCall
    /\ host   \in Hosts
    /\ active \in ActiveSets

\* the steps whose failure is handled by a catch block of _connectXQueue
NextHost ==
    \/ \E cfg \in Configs : ~started /\ Start(cfg)
    \/ \E r \in Roles : TimerFire(r, TRUE)
    \/ \E r \in active : \E a \in DOMAIN att[r], ok \in BOOLEAN : LivenessSettles(r, a, ok)
    \/ \E r \in active : \E a \in DOMAIN att[r], ok \in BOOLEAN : ConnectSettles(r, a, ok)
    \/ \E r \in active : \E a \in DOMAIN att[r], ok \in BOOLEAN : CreateChannelSettles(r, a, ok)
    \/ \E r \in active : \E a \in DOMAIN att[r], ok \in BOOLEAN : CreateQueueSettles(r, a, ok)

SpecHost == InitHost /\ [][NextHost]_vars

\* C37: in in-process mode a failed connect step schedules the retry whether
\* or not the application has registered a listener for 'error'.
C37_RetryWithoutErrorListener ==
    [][\A r \in Roles : \A a \in DOMAIN att[r] :
         (/\ ~host.isChildProcess
          /\ att[r][a].pc \in {"liveness", "connect", "channel", "create"}
          /\ att'[r][a].pc = "done")
            => handle'[r] /\ timers'[r] >= 1]_vars

\* C38: every call of the liveness check settles, as ok or as a failure, for
\* every server response (any status, any body) and for no response at all.
C38_LivenessSettles ==
    \A i \in DOMAIN probes :
        probes[i].out \in {"ok", "Unauthorized", "ServerError", "Timeout", "ConnectionError"}

\* ---------------------------------------------------------------------------
\* restarting: the application starts, shuts down and starts the connector
\* again while attempts are suspended; every awaited call succeeds and a
\* connection may be lost; the server answers the requests of the item role.
\* With fewer things that can go wrong the run may be one event longer.
\* ---------------------------------------------------------------------------

InitRestart ==
    /\ started = FALSE
    /\ opt     = [r \in Roles |-> NoName]
    /\ conn    = [r \in Roles |-> 0]
    /\ chan    = [r \in Roles |-> NoChan]
    /\ handle  = [r \in Roles |-> FALSE]
    /\ timers  = [r \in Roles |-> 0]
    /\ att     = [r \in Roles |-> <<>>]
    /\ co      = [r \in Roles |-> <<>>]
    /\ ch      = [r \in Roles |-> <<>>]
    /\ emitted = <<>>
    /\ loss    = [r \in Roles |-> FALSE]
    /\ last    = [op |-> "init", r |-> "none", was |-> FALSE, cons |-> FALSE]
    /\ spent   = 0
    /\ budget  = MaxEvents + 1
    /\ epoch   = [r \in Roles |-> 0]
    /\ optT    = DefaultTiming
    /\ delay   = [r \in Roles |-> 0]
    /\ timing  = DefaultTiming
    /\ errors  = 0
    /\ msg     = NoFrames(DefaultFilter)
    /\ probes  = <<>>
    /\ made    = NoCall
    /\ host    = Listening
    /\ active  = {"item"}

NextRestart ==
    \/ \E cfg \in Configs : Start(cfg)
    \/ Shutdown
    \/ \E r \in Roles : TimerFire(r, TRUE)
    \/ \E r \in active : \E a \in DOMAIN att[r] : LivenessSettles(r, a, TRUE)
    \/ \E r \in active : \E a \in DOMAIN att[r] : ConnectSettles(r, a, TRUE)
    \/ \E r \in active : \E a \in DOMAIN att[r] : CreateChannelSettles(r, a, TRUE)
    \/ \E r \in active : \E a \in DOMAIN att[r] : CheckQueueSettles(r, a, TRUE)
    \/ \E r \in active : \E a \in DOMAIN att[r] : CreateQueueSettles(r, a, TRUE)
    \/ \E r \in active : \E a \in DOMAIN att[r] : ConsumeSettles(r, a, TRUE)
    \/ \E r \in Roles : \E c \in DOMAIN co[r] : ConnectionLost(r, c)
    \/ \E r \in Roles : \E c \in DOMAIN co[r] : ConnectionCloseSettles(r, c)
    \/ \E r \in Roles : \E a \in DOMAIN ch[r], k \in {1, 2} : ChannelCloseSettles(r, a, k)

SpecRestart == InitRestart /\ [][NextRestart]_vars

\* C39: an 'error' or 'close' event raised by a connection that is no longer
\* the supervisor's current connection never schedules a retry and never
\* clears the remembered queue name.
C39_StaleConnectionIgnored ==
    [][\A r \in Roles : \A c \in DOMAIN co[r] :
         (/\ last'.op \in {"lost", "closed", "error"} /\ last'.r = r
          /\ co[r][c].st = "open" /\ co'[r][c].st # "open"
          /\ conn[r] # c)
            => /\ timers'[r] = timers[r] /\ handle'[r] = handle[r]
               /\ opt'[r] = opt[r]]_vars

====
